---- MODULE Spec2Model ----
(***************************************************************************)
(* Model of src/api/pdf_syllabus_parseer.py: the /extract endpoint, its    *)
(* text acquisition (pdfplumber, then OCR), and the regular-expression     *)
(* section segmentation.  A text is a sequence of one-character strings.   *)
(***************************************************************************)
EXTENDS Naturals, Sequences, FiniteSets, TLC

VARIABLES files, req, ltext, lcall, lout

vars == <<files, req, ltext, lcall, lout>>

-----------------------------------------------------------------------------
(* Characters and Python str helpers                                       *)

UpperChars == <<"A","B","C","D","E","F","G","H","I","J","K","L","M",
                "N","O","P","Q","R","S","T","U","V","W","X","Y","Z">>

LowerChars == <<"a","b","c","d","e","f","g","h","i","j","k","l","m",
                "n","o","p","q","r","s","t","u","v","w","x","y","z">>

UpperSet == {UpperChars[i] : i \in DOMAIN UpperChars}

LowerSet == {LowerChars[i] : i \in DOMAIN LowerChars}

IsUpper(c) == c \in UpperSet

IsLower(c) == c \in LowerSet

\* the lower-case letter of each upper-case letter
LowerOf ==
    [c \in UpperSet |->
        LowerChars[CHOOSE i \in DOMAIN UpperChars : UpperChars[i] = c]]

\* str.lower() on one character
LowerChar(c) == IF c \in UpperSet THEN LowerOf[c] ELSE c

\* str.lower()
LowerText(t) == [i \in DOMAIN t |-> LowerChar(t[i])]

\* the characters \s matches and str.strip() removes
IsSpace(c) == c \in {" ", "\n", "\t"}

\* the value None; no text equals it, since "None" is not a character
None == <<"None">>

\* Python truthiness of an Optional[str]
Truthy(x) == x # None /\ x # <<>>

\* first position >= p whose character is not whitespace, Len(t)+1 if none
SkipSpace(t, p) ==
    IF \E q \in p..Len(t) : ~IsSpace(t[q])
    THEN CHOOSE q \in p..Len(t) :
            ~IsSpace(t[q]) /\ \A k \in p..(q-1) : IsSpace(t[k])
    ELSE Len(t) + 1

\* str.strip()
Strip(t) ==
    LET a == SkipSpace(t, 1)
    IN  IF a > Len(t) THEN <<>>
        ELSE LET b == CHOOSE q \in a..Len(t) :
                        ~IsSpace(t[q]) /\ \A k \in (q+1)..Len(t) : IsSpace(t[k])
             IN  SubSeq(t, a, b)

\* str.startswith(prefix)
StartsWith(t, prefix) ==
    /\ Len(prefix) <= Len(t)
    /\ \A k \in DOMAIN prefix : t[k] = prefix[k]

\* needle in t
Contains(t, needle) ==
    \E p \in 1..(Len(t) - Len(needle) + 1) :
        \A k \in DOMAIN needle : t[p + k - 1] = needle[k]

-----------------------------------------------------------------------------
(* The regular expressions of extract_section and                          *)
(* extract_section_with_boundaries, as re.search evaluates them            *)

\* the inline flag (?i) that opens both patterns: it governs the whole
\* pattern, the character classes of the lookahead included
IGNORECASE == TRUE

\* one literal pattern character against one text character
CharMatches(pc, c) == IF IGNORECASE THEN LowerChar(pc) = LowerChar(c) ELSE pc = c

\* re.escape(lit) matched at position p
LiteralAt(t, p, lit) ==
    /\ p + Len(lit) - 1 <= Len(t)
    /\ \A k \in DOMAIN lit : CharMatches(lit[k], t[p + k - 1])

\* the class [A-Z]
ClassAZ(c) == IsUpper(c) \/ (IGNORECASE /\ IsLower(c))

\* the class [a-z]
Classaz(c) == IsLower(c) \/ (IGNORECASE /\ IsUpper(c))

\* the class [:\n]
IsTerminator(c) == c \in {":", "\n"}

\* first position >= p whose character is not in [:\n], Len(t)+1 if none
SkipTerminators(t, p) ==
    IF \E q \in p..Len(t) : ~IsTerminator(t[q])
    THEN CHOOSE q \in p..Len(t) :
            ~IsTerminator(t[q]) /\ \A k \in p..(q-1) : IsTerminator(t[k])
    ELSE Len(t) + 1

\* \s*[:\n]+\s* matched from position p (just after the heading): the
\* position where group 1 starts, or 0 when the three greedy pieces cannot
\* match.  The first \s* runs to w and gives characters back until [:\n]+
\* can start, so [:\n]+ starts at the last terminator of p..w.
SectionStart(t, p) ==
    LET w  == SkipSpace(t, p)
        ks == {k \in p..w : k <= Len(t) /\ IsTerminator(t[k])}
    IN  IF ks = {} THEN 0
        ELSE LET k == CHOOSE x \in ks : \A y \in ks : y <= x
             IN  SkipSpace(t, SkipTerminators(t, k))

\* GenericEndAt with the two classes read without the flag (?i)
GenericEndAtCaseSensitive(t, e) ==
    \/ e = Len(t) + 1
    \/ /\ e + 2 <= Len(t)
       /\ t[e] = "\n"
       /\ IsUpper(t[e + 1])
       /\ IsLower(t[e + 2])

\* the lookahead (?=\n[A-Z][a-z]|\Z) at position e
GenericEndAt(t, e) ==
    \/ e = Len(t) + 1
    \/ /\ e + 2 <= Len(t)
       /\ t[e] = "\n"
       /\ ClassAZ(t[e + 1])
       /\ Classaz(t[e + 2])

\* the lookahead (?=\nB1|\nB2|...|\Z) at position e; joining an empty list
\* leaves an empty alternative, which matches everywhere
BoundaryEndAt(t, e, end_boundaries) ==
    \/ e = Len(t) + 1
    \/ end_boundaries = <<>>
    \/ \E i \in DOMAIN end_boundaries :
          t[e] = "\n" /\ LiteralAt(t, e + 1, end_boundaries[i])

\* the two patterns differ only in the lookahead
Lookahead(t, e, end_boundaries, generic) ==
    IF generic THEN GenericEndAt(t, e) ELSE BoundaryEndAt(t, e, end_boundaries)

\* the lazy group (.*?) under re.DOTALL: it grows one character at a time
\* from e until the lookahead holds, which it does at the end of the text
RECURSIVE LazyEnd(_, _, _, _)
LazyEnd(t, e, end_boundaries, generic) ==
    IF Lookahead(t, e, end_boundaries, generic) THEN e
    ELSE LazyEnd(t, e + 1, end_boundaries, generic)

\* re.search tries each position from i on: the heading, then its
\* terminator, then the group.  found = FALSE is a search without a match.
RECURSIVE SearchFrom(_, _, _, _, _)
SearchFrom(t, heading, end_boundaries, generic, i) ==
    IF i > Len(t) THEN [found |-> FALSE, pos |-> 0, start |-> 0, end |-> 0]
    ELSE IF LiteralAt(t, i, heading) /\ SectionStart(t, i + Len(heading)) # 0
         THEN LET s == SectionStart(t, i + Len(heading))
              IN  [found |-> TRUE, pos |-> i, start |-> s,
                   end |-> LazyEnd(t, s, end_boundaries, generic)]
         ELSE SearchFrom(t, heading, end_boundaries, generic, i + 1)

\* re.search(pattern, text, re.DOTALL)
Search(t, heading, end_boundaries, generic) ==
    SearchFrom(t, heading, end_boundaries, generic, 1)

\* match.group(1).strip(), or None
GroupOrNone(t, m) == IF m.found THEN Strip(SubSeq(t, m.start, m.end - 1)) ELSE None

extract_section(text, section_heading) ==
    GroupOrNone(text, Search(text, section_heading, <<>>, TRUE))

extract_section_with_boundaries(text, start_heading, end_boundaries) ==
    GroupOrNone(text, Search(text, start_heading, end_boundaries, FALSE))

\* the loop of extract_section_multiple from heading number i on; calls
\* lists the calls it makes, in order
RECURSIVE MultipleFrom(_, _, _)
MultipleFrom(text, possible_headings, i) ==
    IF i > Len(possible_headings) THEN [result |-> None, calls |-> <<>>]
    ELSE LET section_text == extract_section(text, possible_headings[i])
             call == <<"generic", possible_headings[i]>>
         IN  IF Truthy(section_text)
             THEN [result |-> section_text, calls |-> <<call>>]
             ELSE LET rest == MultipleFrom(text, possible_headings, i + 1)
                  IN  [result |-> rest.result, calls |-> <<call>> \o rest.calls]

extract_section_multiple(text, possible_headings) ==
    MultipleFrom(text, possible_headings, 1).result

\* str.splitlines() for the line break "\n"
RECURSIVE SplitLines(_)
SplitLines(t) ==
    IF t = <<>> THEN <<>>
    ELSE IF \E i \in DOMAIN t : t[i] = "\n"
         THEN LET i == CHOOSE x \in DOMAIN t :
                          t[x] = "\n" /\ \A y \in 1..(x - 1) : t[y] # "\n"
              IN  <<SubSeq(t, 1, i - 1)>> \o SplitLines(SubSeq(t, i + 1, Len(t)))
         ELSE <<t>>

\* "\n".join(lines)
RECURSIVE JoinLines(_)
JoinLines(lines) ==
    IF lines = <<>> THEN <<>>
    ELSE IF Len(lines) = 1 THEN lines[1]
         ELSE lines[1] \o <<"\n">> \o JoinLines(Tail(lines))

KwLate == <<"l","a","t","e">>

KwPenalty == <<"p","e","n","a","l","t","y">>

\* the condition of the list comprehension of filter_late_policy
IsLateLine(line) ==
    Contains(LowerText(line), KwLate) \/ Contains(LowerText(line), KwPenalty)

RECURSIVE KeepLateLines(_)
KeepLateLines(lines) ==
    IF lines = <<>> THEN <<>>
    ELSE IF IsLateLine(Head(lines))
         THEN <<Strip(Head(lines))>> \o KeepLateLines(Tail(lines))
         ELSE KeepLateLines(Tail(lines))

filter_late_policy(text) == JoinLines(KeepLateLines(SplitLines(text)))

-----------------------------------------------------------------------------
(* The section configuration of extract_pdf_sections                       *)

\* the heading candidate "Homework:"
HomeworkColon ==
    <<"H","o","m","e","w","o","r","k",":">>

\* "Grading Scale:"
GradingScaleColon ==
    <<"G","r","a","d","i","n","g"," ","S","c","a","l","e",":">>

\* "Grading Scale"
GradingScale ==
    <<"G","r","a","d","i","n","g"," ","S","c","a","l","e">>

\* "Grade Evaluation:"
GradeEvaluationColon ==
    <<"G","r","a","d","e"," ","E","v","a","l","u","a","t","i","o","n",":">>

\* "Grade Evaluation"
GradeEvaluation ==
    <<"G","r","a","d","e"," ","E","v","a","l","u","a","t","i","o","n">>

\* "Graded Work:"
GradedWorkColon ==
    <<"G","r","a","d","e","d"," ","W","o","r","k",":">>

\* "Graded Work"
GradedWork ==
    <<"G","r","a","d","e","d"," ","W","o","r","k">>

\* the boundary candidate "Attendance"
Attendance ==
    <<"A","t","t","e","n","d","a","n","c","e">>

\* "Course Policies"
CoursePolicies ==
    <<"C","o","u","r","s","e"," ","P","o","l","i","c","i","e","s">>

\* the prefix "%PDF"
PdfMarker ==
    <<"%","P","D","F">>

\* the dict sections, in insertion order; boundaries = <<>> stands for the
\* missing key, which params.get("boundaries", None) turns into None
sections ==
    << [name |-> "Late Policy",
        headings |-> <<HomeworkColon>>,
        boundaries |-> <<>>],
       [name |-> "Grading Policy",
        headings |-> <<GradingScaleColon, GradingScale>>,
        boundaries |-> <<Attendance, CoursePolicies>>],
       [name |-> "Grading Weights",
        headings |-> <<GradeEvaluationColon, GradeEvaluation,
                       GradedWorkColon, GradedWork>>,
        boundaries |-> <<GradingScale>>] >>

SectionNames == {sections[i].name : i \in DOMAIN sections}

\* the for loop over headings in boundary mode, from heading number i on,
\* entered with section_text = prev; it breaks on the first truthy result
RECURSIVE BoundaryLoop(_, _, _, _, _)
BoundaryLoop(text, headings, boundaries, i, prev) ==
    IF i > Len(headings) THEN [result |-> prev, calls |-> <<>>]
    ELSE LET section_text ==
                 extract_section_with_boundaries(text, headings[i], boundaries)
             call == <<"boundary", headings[i]>>
         IN  IF Truthy(section_text)
             THEN [result |-> section_text, calls |-> <<call>>]
             ELSE LET rest == BoundaryLoop(text, headings, boundaries, i + 1,
                                           section_text)
                  IN  [result |-> rest.result, calls |-> <<call>> \o rest.calls]

\* LocateSection without the second pass in generic mode
LocateSectionNoFallback(text, headings, boundaries) ==
    IF boundaries # <<>>
    THEN BoundaryLoop(text, headings, boundaries, 1, None)
    ELSE MultipleFrom(text, headings, 1)

\* the body of the loop over sections up to the filter: the located text
\* and the locator calls made for it, in order
LocateSection(text, headings, boundaries) ==
    IF boundaries # <<>>
    THEN LET b == BoundaryLoop(text, headings, boundaries, 1, None)
         IN  IF ~Truthy(b.result)
             THEN LET g == MultipleFrom(text, headings, 1)
                  IN  [result |-> g.result, calls |-> b.calls \o g.calls]
             ELSE b
    ELSE MultipleFrom(text, headings, 1)

\* one iteration of the loop over sections: the value stored under the name
SectionText(text, params) ==
    LET section_text == LocateSection(text, params.headings, params.boundaries).result
    IN  IF params.name = "Late Policy" /\ Truthy(section_text)
        THEN filter_late_policy(section_text)
        ELSE section_text

\* SectionsLoop leaving the loop at the first section that is not found
RECURSIVE SectionsLoopStopsOnNone(_, _, _)
SectionsLoopStopsOnNone(text, i, extracted_data) ==
    IF i > Len(sections) THEN extracted_data
    ELSE IF SectionText(text, sections[i]) = None THEN extracted_data
         ELSE SectionsLoopStopsOnNone(text, i + 1,
                  (sections[i].name :> SectionText(text, sections[i])) @@ extracted_data)

\* the loop over sections from entry number i on, adding to extracted_data
RECURSIVE SectionsLoop(_, _, _)
SectionsLoop(text, i, extracted_data) ==
    IF i > Len(sections) THEN extracted_data
    ELSE SectionsLoop(text, i + 1,
             (sections[i].name :> SectionText(text, sections[i])) @@ extracted_data)

\* extracted_data = {} and the loop: what jsonify receives
ExtractedData(text) == SectionsLoop(text, 1, <<>>)

-----------------------------------------------------------------------------
(* Documents: what the three external libraries return for an upload       *)

\* 'Homework:\nLate work loses 10% per day.\nNo penalty within 24 hours.\nAttendance is mandatory.'
PageHomework ==
    <<"H","o","m","e","w","o","r","k",":","\n","L","a","t","e"," ","w","o",
      "r","k"," ","l","o","s","e","s"," ","1","0","%"," ","p","e","r"," ",
      "d","a","y",".","\n","N","o"," ","p","e","n","a","l","t","y"," ","w",
      "i","t","h","i","n"," ","2","4"," ","h","o","u","r","s",".","\n","A",
      "t","t","e","n","d","a","n","c","e"," ","i","s"," ","m","a","n","d",
      "a","t","o","r","y",".">>

\* 'Graded Work:\nExams 60%\nGrading Scale:\nA 90-100\nB 80-89\nAttendance Policy\nBe on time.'
PageGrading ==
    <<"G","r","a","d","e","d"," ","W","o","r","k",":","\n","E","x","a","m",
      "s"," ","6","0","%","\n","G","r","a","d","i","n","g"," ","S","c","a",
      "l","e",":","\n","A"," ","9","0","-","1","0","0","\n","B"," ","8","0",
      "-","8","9","\n","A","t","t","e","n","d","a","n","c","e"," ","P","o",
      "l","i","c","y","\n","B","e"," ","o","n"," ","t","i","m","e",".">>

\* 'Homework:\nlate = zero\nno penalty if excused\nGrading Scale\nAttendance counts\nsee above'
PageScanned ==
    <<"H","o","m","e","w","o","r","k",":","\n","l","a","t","e"," ","="," ",
      "z","e","r","o","\n","n","o"," ","p","e","n","a","l","t","y"," ","i",
      "f"," ","e","x","c","u","s","e","d","\n","G","r","a","d","i","n","g",
      " ","S","c","a","l","e","\n","A","t","t","e","n","d","a","n","c","e",
      " ","c","o","u","n","t","s","\n","s","e","e"," ","a","b","o","v","e">>

\* '%PDF-1.4 obj'
PageContainer ==
    <<"%","P","D","F","-","1",".","4"," ","o","b","j">>

\* ' \n%off\nGrade Evaluation\nQuizzes 40%'
PageIndented ==
    <<" ","\n","%","o","f","f","\n","G","r","a","d","e"," ","E","v","a","l",
      "u","a","t","i","o","n","\n","Q","u","i","z","z","e","s"," ","4","0",
      "%">>

\* ' '
PageBlank ==
    <<" ">>

\* An upload: readable says whether pdfplumber.open succeeds, pages holds
\* page.extract_text() of each page (<<>> for a page without a text layer),
\* rasterizable says whether convert_from_path succeeds, scans holds
\* pytesseract.image_to_string of each page image.
DocTable ==
    << \* born-digital syllabus
       [readable |-> TRUE, pages |-> <<PageHomework>>,
        rasterizable |-> TRUE, scans |-> <<PageHomework>>],
       \* born-digital, two pages, the second without text
       [readable |-> TRUE, pages |-> <<PageGrading, <<>>>>,
        rasterizable |-> TRUE, scans |-> <<PageGrading, <<>>>>],
       \* scanned syllabus: no text layer, legible
       [readable |-> TRUE, pages |-> <<<<>>>>,
        rasterizable |-> TRUE, scans |-> <<PageScanned>>],
       \* scanned, illegible: OCR recognizes nothing
       [readable |-> TRUE, pages |-> <<<<>>, <<>>>>,
        rasterizable |-> TRUE, scans |-> <<<<>>, PageBlank>>],
       \* not a PDF: both libraries raise
       [readable |-> FALSE, pages |-> <<>>,
        rasterizable |-> FALSE, scans |-> <<>>],
       \* no text layer, and the rasterizer raises
       [readable |-> TRUE, pages |-> <<<<>>>>,
        rasterizable |-> FALSE, scans |-> <<>>],
       \* the text layer is raw container content
       [readable |-> TRUE, pages |-> <<PageContainer>>,
        rasterizable |-> TRUE, scans |-> <<PageScanned>>],
       \* text layer opening with blank space and a percent sign
       [readable |-> TRUE, pages |-> <<PageIndented>>,
        rasterizable |-> TRUE, scans |-> <<PageBlank>>] >>

Docs == DOMAIN DocTable

\* files[f] when the path uploads/f does not exist
NoFile == 0

\* the loop of extract_text_from_pdf: a page with no text adds nothing
RECURSIVE DirectText(_)
DirectText(pages) ==
    IF pages = <<>> THEN <<>>
    ELSE (IF Head(pages) # <<>> THEN Head(pages) \o <<"\n">> ELSE <<>>)
         \o DirectText(Tail(pages))

\* the loop of extract_text_with_ocr: every page adds its text and "\n"
RECURSIVE OcrText(_)
OcrText(scans) ==
    IF scans = <<>> THEN <<>>
    ELSE Head(scans) \o <<"\n">> \o OcrText(Tail(scans))

\* whether pdfplumber.open raises on the path whose content is d
DirectRaises(d) == d = NoFile \/ ~DocTable[d].readable

\* whether convert_from_path raises on the path whose content is d
OcrRaises(d) == d = NoFile \/ ~DocTable[d].rasterizable

\* NeedsOcr with the "not" of its first operand lost
NeedsOcrLostNot(pdf_text) ==
    Strip(pdf_text) # <<>> \/ StartsWith(Strip(pdf_text), PdfMarker)

\* the condition of the if statement that sends the request to OCR
NeedsOcr(pdf_text) ==
    Strip(pdf_text) = <<>> \/ StartsWith(Strip(pdf_text), PdfMarker)

\* every text the two acquisition paths can return for the documents
AcquiredTexts ==
    {DirectText(DocTable[d].pages) : d \in {x \in Docs : DocTable[x].readable}}
    \cup {OcrText(DocTable[d].scans) : d \in {x \in Docs : DocTable[x].rasterizable}}

\* NeedsOcr and ExtractedData tabulated over those texts, so that each is
\* evaluated once per text
NeedsOcrOf == [t \in AcquiredTexts |-> NeedsOcr(t)]

ExtractedDataOf == [t \in AcquiredTexts |-> ExtractedData(t)]

-----------------------------------------------------------------------------
(* The /extract endpoint: each request is a thread of the server, and the  *)
(* requests interleave at their file operations                            *)

\* how many requests the server handles
NumRequests == 2

Requests == 1..NumRequests

\* the values of file.filename; uploads/<filename> is the path of the copy
FileNames == {"syllabus.pdf", "notes.pdf"}

\* a request before the handler has run
NewRequest ==
    [pc |-> "start", filename |-> "", doc |-> NoFile, direct |-> None,
     pdf_text |-> None, ocr |-> FALSE, removed |-> FALSE,
     outcome |-> "none", data |-> <<>>]

\* no call made on the locator
NoCall == [op |-> "none", headings |-> <<>>, boundaries |-> <<>>]

NoOut == [result |-> None, calls |-> <<>>]

Init ==
    /\ files = [f \in FileNames |-> NoFile]
    /\ req = [r \in Requests |-> NewRequest]
    /\ ltext = <<>>
    /\ lcall = NoCall
    /\ lout = NoOut

\* the two early returns: no file part, or an empty filename
Reject(r) ==
    /\ req[r].pc = "start"
    /\ req' = [req EXCEPT ![r].pc = "done", ![r].outcome = "bad_request"]
    /\ UNCHANGED <<files, ltext, lcall, lout>>

\* os.makedirs, os.path.join and file.save of an upload named f holding d
Save(r) ==
    /\ req[r].pc = "start"
    /\ \E f \in FileNames, d \in Docs :
          /\ files' = [files EXCEPT ![f] = d]
          /\ req' = [req EXCEPT ![r].pc = "saved", ![r].filename = f, ![r].doc = d]
    /\ UNCHANGED <<ltext, lcall, lout>>

\* extract_text_from_pdf on the path, then the test that selects OCR;
\* sys.exit(1) ends the handler with no response
ExtractText(r) ==
    /\ req[r].pc = "saved"
    /\ LET d == files[req[r].filename]
       IN  IF DirectRaises(d)
           THEN req' = [req EXCEPT ![r].pc = "done", ![r].outcome = "exit"]
           ELSE LET text == DirectText(DocTable[d].pages)
                IN  req' = [req EXCEPT
                              ![r].direct = text,
                              ![r].pdf_text = text,
                              ![r].pc = IF NeedsOcrOf[text] THEN "ocr" ELSE "segment"]
    /\ UNCHANGED <<files, ltext, lcall, lout>>

\* extract_text_with_ocr on the path
Ocr(r) ==
    /\ req[r].pc = "ocr"
    /\ LET d == files[req[r].filename]
       IN  IF OcrRaises(d)
           THEN req' = [req EXCEPT ![r].ocr = TRUE, ![r].pc = "done",
                                   ![r].outcome = "exit"]
           ELSE req' = [req EXCEPT ![r].ocr = TRUE, ![r].pc = "segment",
                                   ![r].pdf_text = OcrText(DocTable[d].scans)]
    /\ UNCHANGED <<files, ltext, lcall, lout>>

\* the loop over sections, os.remove and the response; os.remove raises
\* FileNotFoundError when the path is gone, and the request ends in error
Finish(r) ==
    /\ req[r].pc = "segment"
    /\ LET extracted_data == ExtractedDataOf[req[r].pdf_text]
       IN  IF files[req[r].filename] = NoFile
           THEN /\ req' = [req EXCEPT ![r].pc = "done", ![r].outcome = "error"]
                /\ UNCHANGED files
           ELSE /\ files' = [files EXCEPT ![req[r].filename] = NoFile]
                /\ req' = [req EXCEPT ![r].pc = "done", ![r].outcome = "ok",
                                      ![r].removed = TRUE,
                                      ![r].data = extracted_data]
    /\ UNCHANGED <<ltext, lcall, lout>>

Next ==
    \E r \in Requests :
        Reject(r) \/ Save(r) \/ ExtractText(r) \/ Ocr(r) \/ Finish(r)

Spec == Init /\ [][Next]_vars

-----------------------------------------------------------------------------
(* Properties of the endpoint                                              *)

\* a request that has left the handler
Completed(r) == req[r].pc = "done"

\* a request that has stored its upload under uploads/
HasSaved(r) == req[r].doc # NoFile

\* the text a request obtains when its own upload alone is read
OwnText(d) ==
    IF NeedsOcr(DirectText(DocTable[d].pages))
    THEN OcrText(DocTable[d].scans)
    ELSE DirectText(DocTable[d].pages)

\* the documents from which a request working alone obtains a text
AcquirableDocs ==
    {d \in Docs :
        /\ DocTable[d].readable
        /\ NeedsOcr(DirectText(DocTable[d].pages)) => DocTable[d].rasterizable}

\* OwnText tabulated over them
OwnTextOf == [d \in AcquirableDocs |-> OwnText(d)]

\* C1: requests handled at the same time do not share the temporary file
\* or the acquired text: while a request still has its file to read, the
\* path holds its own upload, and the text it segments is the text of its
\* own upload.
ClaimC1 ==
    \A r \in Requests :
        /\ req[r].pc \in {"saved", "ocr"} => files[req[r].filename] = req[r].doc
        /\ req[r].pc = "segment" =>
              /\ req[r].doc \in AcquirableDocs
              /\ req[r].pdf_text = OwnTextOf[req[r].doc]

\* direct extraction returned usable text: not blank once stripped, and not
\* opening with the container marker
UsableDirect(t) ==
    t # None /\ Strip(t) # <<>> /\ ~StartsWith(Strip(t), PdfMarker)

\* the texts of AcquiredTexts that are usable in that sense
UsableTexts == {t \in AcquiredTexts : UsableDirect(t)}

\* the result of each configured section on each text, computed outside the
\* loop over sections
SectionTextOf ==
    [t \in AcquiredTexts |-> [i \in DOMAIN sections |-> SectionText(t, sections[i])]]

\* C2: when direct extraction yields text that is not blank after stripping
\* and does not start with "%PDF", OCR is never invoked for the request and
\* the text that is segmented is the direct text.
TheoremC2 ==
    \A r \in Requests :
        req[r].direct \in UsableTexts =>
            /\ ~req[r].ocr
            /\ req[r].pc # "ocr"
            /\ req[r].pdf_text = req[r].direct
            /\ req[r].outcome = "ok" =>
                  \A i \in DOMAIN sections :
                      req[r].data[sections[i].name] = SectionTextOf[req[r].direct][i]

\* a request answered from a text layer that opens with blank space
WitnessC2 ==
    \E r \in Requests :
        /\ req[r].direct \in UsableTexts
        /\ IsSpace(req[r].direct[1])
        /\ req[r].outcome = "ok"

\* C3: a request that saved its upload has removed the temporary file by
\* the time it completes, on every path.
ClaimC3 ==
    \A r \in Requests : Completed(r) /\ HasSaved(r) => req[r].removed

\* the acquired texts that hold nothing but whitespace
BlankTexts == {t \in AcquiredTexts : Strip(t) = <<>>}

\* C4: a document without a text layer whose OCR text is only whitespace
\* ends in the acquisition failure, and no mapping is returned.
ClaimC4 ==
    \A r \in Requests :
        Completed(r) /\ req[r].ocr /\ req[r].pdf_text \in BlankTexts =>
            req[r].outcome = "exit"

\* C5: the mapping a request returns has exactly one entry per configured
\* section, and each entry is the result of that section's own
\* configuration on the request's text, whatever the other entries are.
TheoremC5 ==
    \A r \in Requests :
        req[r].outcome = "ok" =>
            /\ DOMAIN req[r].data = {"Late Policy", "Grading Policy", "Grading Weights"}
            /\ \A i \in DOMAIN sections :
                  req[r].data[sections[i].name] = SectionTextOf[req[r].pdf_text][i]

\* a returned mapping in which one section is None and a later one is found
WitnessC5 ==
    \E r \in Requests :
        /\ req[r].outcome = "ok"
        /\ req[r].data["Grading Policy"] = None
        /\ Truthy(req[r].data["Grading Weights"])

\* 'Late work loses 10% per day.'
LateLine1 ==
    <<"L","a","t","e"," ","w","o","r","k"," ","l","o","s","e","s"," ","1",
      "0","%"," ","p","e","r"," ","d","a","y",".">>

\* 'No penalty within 24 hours.'
LateLine2 ==
    <<"N","o"," ","p","e","n","a","l","t","y"," ","w","i","t","h","i","n",
      " ","2","4"," ","h","o","u","r","s",".">>

\* the text acquired from the syllabus of the scenario
ScenarioText == PageHomework \o <<"\n">>

IsLetter(c) == IsUpper(c) \/ IsLower(c)

\* the first position from e on where a line break is followed by two
\* letters, Len(t) + 1 if there is none
RECURSIVE TwoLetterLine(_, _)
TwoLetterLine(t, e) ==
    IF e > Len(t) THEN Len(t) + 1
    ELSE IF t[e] = "\n" /\ e + 2 <= Len(t) /\ IsLetter(t[e + 1]) /\ IsLetter(t[e + 2])
         THEN e
         ELSE TwoLetterLine(t, e + 1)

\* the keyword-bearing lines of text, stripped, in order
KeywordLines(text) ==
    LET lines == SplitLines(text)
        keep == SelectSeq(lines,
                   LAMBDA l : Contains(LowerText(l), KwLate)
                              \/ Contains(LowerText(l), KwPenalty))
    IN  [i \in DOMAIN keep |-> Strip(keep[i])]

\* what C8 as stated makes of the Late Policy entry for a text: None is
\* kept where the heading does not occur or nothing follows it
StatedLate(t) ==
    LET m == Search(t, HomeworkColon, <<>>, TRUE)
    IN  IF m.found /\ m.start <= Len(t)
        THEN JoinLines(KeywordLines(SubSeq(t, m.start, Len(t))))
        ELSE None

\* the same with the section closed by the first line of two letters
AmendedLate(t) ==
    LET m == Search(t, HomeworkColon, <<>>, TRUE)
    IN  IF m.found /\ m.start <= Len(t)
        THEN JoinLines(KeywordLines(SubSeq(t, m.start, TwoLetterLine(t, m.start) - 1)))
        ELSE None

StatedLateOf == [t \in AcquiredTexts |-> StatedLate(t)]

AmendedLateOf == [t \in AcquiredTexts |-> AmendedLate(t)]

-----------------------------------------------------------------------------
(* The locator functions applied to every short text                       *)

\* the longest text the two extraction functions are applied to
MaxLen == 6

\* the longest text the candidate loops are applied to
MaxCandLen == 5

\* an upper-case letter, a lower-case letter, a digit, the two heading
\* terminators and a blank
Alphabet == {"A", "a", "1", ":", "\n", " "}

TextsUpTo(n) == UNION {[1..k -> Alphabet] : k \in 0..n}

HeadA == <<"A">>

HeadAColon == <<"A", ":">>

HeadDigit == <<"1">>

\* heading candidates with and without the colon, as the configured ones
\* come, and a pair of unrelated candidates
HeadingLists == {<<HeadAColon, HeadA>>, <<HeadDigit, HeadA>>}

BoundaryLists == {<< <<"1">> >>, << <<"a">>, <<"1">> >>}

InitLocate ==
    /\ files = [f \in FileNames |-> NoFile]
    /\ req = [r \in Requests |-> NewRequest]
    /\ ltext \in TextsUpTo(MaxLen)
    /\ lcall = NoCall
    /\ lout = NoOut

CallExtractSection ==
    /\ lcall.op = "none"
    /\ \E h \in {HeadA, HeadAColon} :
          /\ lcall' = [op |-> "extract_section", headings |-> <<h>>, boundaries |-> <<>>]
          /\ lout' = [result |-> extract_section(ltext, h), calls |-> <<>>]
    /\ UNCHANGED <<files, req, ltext>>

CallExtractSectionWithBoundaries ==
    /\ lcall.op = "none"
    /\ \E h \in {HeadA, HeadAColon}, bs \in BoundaryLists :
          /\ lcall' = [op |-> "extract_section_with_boundaries",
                       headings |-> <<h>>, boundaries |-> bs]
          /\ lout' = [result |-> extract_section_with_boundaries(ltext, h, bs),
                      calls |-> <<>>]
    /\ UNCHANGED <<files, req, ltext>>

NextLocate == CallExtractSection \/ CallExtractSectionWithBoundaries

SpecLocate == InitLocate /\ [][NextLocate]_vars

InitCandidates ==
    /\ files = [f \in FileNames |-> NoFile]
    /\ req = [r \in Requests |-> NewRequest]
    /\ ltext \in TextsUpTo(MaxCandLen)
    /\ lcall = NoCall
    /\ lout = NoOut

CallExtractSectionMultiple ==
    /\ lcall.op = "none"
    /\ \E hs \in HeadingLists :
          /\ lcall' = [op |-> "extract_section_multiple", headings |-> hs,
                       boundaries |-> <<>>]
          /\ lout' = MultipleFrom(ltext, hs, 1)
    /\ UNCHANGED <<files, req, ltext>>

\* the locating part of one iteration of the loop over sections
CallLocateSection ==
    /\ lcall.op = "none"
    /\ \E hs \in HeadingLists, bs \in BoundaryLists \cup {<<>>} :
          /\ lcall' = [op |-> "locate", headings |-> hs, boundaries |-> bs]
          /\ lout' = LocateSection(ltext, hs, bs)
    /\ UNCHANGED <<files, req, ltext>>

NextCandidates == CallExtractSectionMultiple \/ CallLocateSection

SpecCandidates == InitCandidates /\ [][NextCandidates]_vars

-----------------------------------------------------------------------------
(* Properties of the locator                                               *)

\* the first position p >= s at the start of a line where a boundary
\* candidate occurs, Len(t) + 1 if there is none
RECURSIVE BoundaryLineFrom(_, _, _)
BoundaryLineFrom(t, s, end_boundaries) ==
    IF s > Len(t) THEN Len(t) + 1
    ELSE IF /\ s > 1
            /\ t[s - 1] = "\n"
            /\ \E i \in DOMAIN end_boundaries : LiteralAt(t, s, end_boundaries[i])
         THEN s
         ELSE BoundaryLineFrom(t, s + 1, end_boundaries)

\* C9: in boundary mode the section runs from its start offset to the
\* earliest boundary candidate standing at the start of a line at or after
\* that offset, whichever candidate it is, and to the end of the text when
\* there is none; the end is never before the start, and a boundary line
\* right after the heading line leaves the section empty.
ClaimC9 ==
    lcall.op = "extract_section_with_boundaries" =>
        LET m == Search(ltext, lcall.headings[1], lcall.boundaries, FALSE)
            p == BoundaryLineFrom(ltext, m.start, lcall.boundaries)
        IN  m.found =>
                /\ m.end >= m.start
                /\ lout.result = Strip(SubSeq(ltext, m.start, p - 1))

\* the first position p > s at the start of a line whose first character is
\* an upper-case letter and whose second is a lower-case letter, Len(t) + 1
\* if there is none
RECURSIVE HeaderLineAfter(_, _)
HeaderLineAfter(t, s) ==
    IF s + 1 > Len(t) THEN Len(t) + 1
    ELSE IF /\ t[s] = "\n"
            /\ s + 2 <= Len(t)
            /\ IsUpper(t[s + 1])
            /\ IsLower(t[s + 2])
         THEN s + 1
         ELSE HeaderLineAfter(t, s + 1)

\* C10: in generic mode the section runs from its start offset to the next
\* line that begins with an upper-case letter followed by a lower-case
\* letter, the test being case-sensitive, and to the end of the text when
\* there is no such line.
ClaimC10 ==
    lcall.op = "extract_section" =>
        LET m == Search(ltext, lcall.headings[1], <<>>, TRUE)
            p == HeaderLineAfter(ltext, m.start)
        IN  m.found => lout.result = Strip(SubSeq(ltext, m.start, p - 1))

\* the calls of lout made in the given mode
CallsIn(mode) == SelectSeq(lout.calls, LAMBDA c : c[1] = mode)

\* the candidates of a call list
CallHeadings(calls) == [i \in DOMAIN calls |-> calls[i][2]]

\* whether heading h, followed by a terminator, occurs in t
Occurs(t, h) == Search(t, h, <<>>, TRUE).found

\* the number of the first candidate of hs that occurs in t, 0 if none does
FirstOccurring(t, hs) ==
    IF \E i \in DOMAIN hs : Occurs(t, hs[i])
    THEN CHOOSE i \in DOMAIN hs :
            Occurs(t, hs[i]) /\ \A j \in 1..(i - 1) : ~Occurs(t, hs[j])
    ELSE 0

\* C6: in either mode the first candidate, in list order, that occurs in
\* the text followed by a terminator gives the result, and no candidate
\* after it is consulted, even when its content is empty.
ClaimC6 ==
    LET hs == lcall.headings
        f == FirstOccurring(ltext, hs)
        boundary == lcall.op = "locate" /\ lcall.boundaries # <<>>
        calls == IF boundary THEN CallsIn("boundary") ELSE CallsIn("generic")
    IN  lcall.op \in {"extract_section_multiple", "locate"} /\ f # 0 =>
            /\ CallHeadings(calls) = SubSeq(hs, 1, f)
            /\ lout.result =
                  IF boundary
                  THEN extract_section_with_boundaries(ltext, hs[f], lcall.boundaries)
                  ELSE extract_section(ltext, hs[f])

====
